---- MODULE Spec2Model ----
(***************************************************************************)
(* Weekly shift scheduler (src/main.py): block generation, availability,   *)
(* the 0/1 constraint model handed to the MILP solver, and the decoding of *)
(* the solver's value map into the assigned and uncovered tables.          *)
(*                                                                         *)
(* Times of day are minutes after midnight (0 .. 1439), the resolution of  *)
(* the "%H:%M" strings genblocks parses.  A datetime of "today" is the     *)
(* number of minutes since today's midnight, so that adding an hour can    *)
(* pass midnight while .time() wraps back into 0 .. 1439.                  *)
(*                                                                         *)
(* Three specifications share the variables:                               *)
(*   Spec      main's pipeline: build_model, prob.solve, the rest of       *)
(*             solve_and_extract, the rest of main;                        *)
(*   SpecModel build_model followed by a solve that tries any 0/1 value    *)
(*             map over the variables, for a single student and day;       *)
(*   SpecGen   genblocks alone, on windows anywhere in the day.            *)
(* build_model calls genblocks(ds) with the default window 07:30 - 17:30,  *)
(* ten blocks a day.  Spec and SpecModel start the window at 07:30 as the  *)
(* code does and bound its length by MaxBlocks hours, so that the value    *)
(* maps of a model can be enumerated.                                      *)
(*                                                                         *)
(* The solver (PuLP with CBC) is external.  It is modelled by its          *)
(* contract: Optimal comes with a value map that satisfies every           *)
(* constraint and has the least objective, Feasible with any map that      *)
(* satisfies every constraint, Infeasible only when no map does, and the   *)
(* other statuses at any time; without a solution the variables hold       *)
(* whatever the solver left in them.                                       *)
(***************************************************************************)
EXTENDS Integers, Sequences, FiniteSets, TLC

VARIABLES pc, days, window, df, params, blks, model, status, val,
          valuesRead, result, files

vars == <<pc, days, window, df, params, blks, model, status, val,
          valuesRead, result, files>>

\* ------------------------------------------------------------------ bounds
\* Largest number of one-hour blocks of the operating window in the
\* specifications that enumerate value maps.
MaxBlocks == 4

\* ---------------------------------------------------------------- helpers
DayMinutes == 24 * 60
Hour == 60

None == "None"

\* lpSum of the variables with keys in S under the value map f: every
\* variable is LpBinary, so the sum is the number of keys with value 1
SumOver(f, S) == Cardinality({k \in S : f[k] = 1})

Range(seq) == {seq[k] : k \in 1..Len(seq)}

\* datetime.time(): the time of day of a datetime given in minutes since
\* today's midnight
TimeOf(dt) == dt % DayMinutes

\* st.strftime("%H:%M"): the two printed fields
strftime(t) == <<t \div 60, t % 60>>

\* ---------------------------------------------------------------- genblocks
RECURSIVE genday(_, _, _, _)
\* One pass of the while loop of genblocks for day d: cur is the datetime
\* of the loop variable, en_time the window's end as a time of day.
genday(d, cur, i, en_time) ==
  IF cur < en_time                       \* while cur < fin
  THEN LET s == TimeOf(cur)
           e == TimeOf(cur + Hour)
       IN IF e > en_time                 \* if e > en_time: break
          THEN <<>>
          ELSE <<<<d, i, s, e>>>> \o genday(d, cur + Hour, i + 1, en_time)
  ELSE <<>>

RECURSIVE genblocks(_, _, _)
\* genblocks(days, start, end): the blocks (day, i, st, et) of every day of
\* the sequence ds, day after day
genblocks(ds, start, end) ==
  IF ds = <<>> THEN <<>>
  ELSE genday(Head(ds), start, 0, end) \o genblocks(Tail(ds), start, end)

\* ------------------------------------------------------------------ roster
\* Python's string order on the day labels and on the student names the
\* rosters of this development use: sorted(df['Day of Week'].unique()) and
\* the key order of df.groupby("Student Name").
AlphabeticalDays == <<"Friday", "Monday", "Thursday", "Tuesday", "Wednesday">>
AlphabeticalNames == <<"A", "B">>

\* ds = sorted(df['Day of Week'].unique())
sorted_days(roster) ==
  SelectSeq(AlphabeticalDays, LAMBDA d : \E r \in roster : r.day = d)

\* stmap[s]: the (Day of Week, Class Start, Class End) of the rows of s
stmap(roster, s) == {<<r.day, r.cs, r.ce>> : r \in {q \in roster : q.name = s}}

\* stus = list(stmap.keys())
stus_of(roster) ==
  SelectSeq(AlphabeticalNames, LAMBDA s : \E r \in roster : r.name = s)

\* freeblk with closed intervals: a class touching the block counts as overlap
freeblk_closed(classes, d, s, e) ==
  \A c \in classes : c[1] = d => ~(c[2] <= e /\ c[3] >= s)

\* ------------------------------------------------------------------ freeblk
\* True iff no class of day d overlaps the block [s, e)
freeblk(classes, d, s, e) ==
  \A c \in classes : c[1] = d => ~(c[2] < e /\ c[3] > s)

\* -------------------------------------------------------------- build_model
\* day_blocks[d]: the (i, st, et) of the blocks of day d
day_blocks(bs, d) ==
  LET keep(b) == b[1] = d
      sel == SelectSeq(bs, keep)
  IN [k \in 1..Len(sel) |-> <<sel[k][2], sel[k][3], sel[k][4]>>]

\* block_indices = [b[0] for b in day_blocks[d]]
block_indices(bs, d) == {b[1] : b \in Range(day_blocks(bs, d))}

\* The keys of x: one per student and block, busy or not
x_keys(ss, bs) == {<<s, b[1], b[2]>> : s \in Range(ss), b \in Range(bs)}

\* The keys of y: one per student and day
y_keys(ss, ds) == Range(ss) \X Range(ds)

\* start_keys with the window test one block short
start_keys_short(ss, ds, bs, k) ==
  {<<s, b[1], b[2]>> : s \in Range(ss),
                       b \in {c \in Range(bs) : (c[2] + k - 2) \in block_indices(bs, c[1])}}

\* The keys of start2, start3, start4 (k = 2, 3, 4): block i of day d gets a
\* start_k variable if (i + k - 1) in block_indices
start_keys(ss, ds, bs, k) ==
  {<<s, b[1], b[2]>> : s \in Range(ss),
                       b \in {c \in Range(bs) : (c[2] + k - 1) \in block_indices(bs, c[1])}}

\* The keys of u: one per block
u_keys(bs) == {<<b[1], b[2]>> : b \in Range(bs)}

\* 5) Busy check: the x variables that get the constraint x == 0
busy_keys(roster, ss, bs) ==
  UNION {{<<s, b[1], b[2]>> :
             b \in {c \in Range(bs) : ~freeblk(stmap(roster, s), c[1], c[3], c[4])}} :
         s \in Range(ss)}

\* The x variables the linking constraints of start_k look up:
\* x[(s,d,i)], x[(s,d,i+1)], ... x[(s,d,i+k-1)]
link_refs(sk, k) == {<<key[1], key[2], key[3] + j>> : key \in sk, j \in 0..(k - 1)}

\* build_model(df, minh, maxh, avg_low, avg_high, maxovl, day_cost): the
\* variables and the data of the constraints (minh .. day_cost enter the
\* constraints and the objective below).  w is the window genblocks is
\* called with; keyerror is TRUE when a linking constraint looks up a
\* missing x, where the dictionary lookup x[(s,d,i+j)] raises KeyError.
build_model(roster, w) ==
  LET ds == sorted_days(roster)
      bs == genblocks(ds, w[1], w[2])
      ss == stus_of(roster)
      xk == x_keys(ss, bs)
      s2 == start_keys(ss, ds, bs, 2)
      s3 == start_keys(ss, ds, bs, 3)
      s4 == start_keys(ss, ds, bs, 4)
  IN [ds |-> ds, blks |-> bs, stus |-> ss,
      x |-> xk, y |-> y_keys(ss, ds),
      start2 |-> s2, start3 |-> s3, start4 |-> s4,
      u |-> u_keys(bs),
      busy |-> busy_keys(roster, ss, bs),
      keyerror |-> ~((link_refs(s2, 2) \cup link_refs(s3, 3) \cup link_refs(s4, 4))
                        \subseteq xk)]

\* ------------------------------------------------------------- constraints
\* The variables of student s on day d, as functions of the block index
x_day(m, v, s, d) ==
  [i \in {k[3] : k \in {q \in m.x : q[1] = s /\ q[2] = d}} |-> v.x[<<s, d, i>>]]
s2_list(m, v, s, d) ==
  [i \in {k[3] : k \in {q \in m.start2 : q[1] = s /\ q[2] = d}} |-> v.start2[<<s, d, i>>]]
s3_list(m, v, s, d) ==
  [i \in {k[3] : k \in {q \in m.start3 : q[1] = s /\ q[2] = d}} |-> v.start3[<<s, d, i>>]]
s4_list(m, v, s, d) ==
  [i \in {k[3] : k \in {q \in m.start4 : q[1] = s /\ q[2] = d}} |-> v.start4[<<s, d, i>>]]

Total(f) == SumOver(f, DOMAIN f)

\* c_shifts with the equality weakened to <=
c_shifts_le(yv, s2, s3, s4) == Total(s2) + Total(s3) + Total(s4) <= yv

\* shifts_s_d: lpSum(s2_list + s3_list + s4_list) == y[(s,d)]
c_shifts(yv, s2, s3, s4) == Total(s2) + Total(s3) + Total(s4) = yv

\* c_sumx with the equality weakened to >=
c_sumx_ge(xd, s2, s3, s4) == Total(xd) >= 2 * Total(s2) + 3 * Total(s3) + 4 * Total(s4)

\* sumx_s_d: sum_x_day == 2*lpSum(s2_list) + 3*lpSum(s3_list) + 4*lpSum(s4_list)
c_sumx(xd, s2, s3, s4) == Total(xd) = 2 * Total(s2) + 3 * Total(s3) + 4 * Total(s4)

\* x[(s,d,i+j)] >= start_k[(s,d,i)] for 0 <= j < k
c_link(xd, sk, k) == \A i \in DOMAIN sk : \A j \in 0..(k - 1) : xd[i + j] >= sk[i]

\* 6) the shift constraints of one student and day
c_shape(xd, yv, s2, s3, s4) ==
  /\ c_shifts(yv, s2, s3, s4)
  /\ c_sumx(xd, s2, s3, s4)
  /\ c_link(xd, s2, 2)
  /\ c_link(xd, s3, 3)
  /\ c_link(xd, s4, 4)

\* Number of students on block (d, i)
assigned_count(m, v, d, i) == SumOver(v.x, {<<s, d, i>> : s \in Range(m.stus)})

\* total_hrs of student s
total_hrs(m, v, s) == SumOver(v.x, {k \in m.x : k[1] = s})

\* c_cover with the right-hand side 0
c_cover_zero(m, v) == \A b \in m.u : assigned_count(m, v, b[1], b[2]) + v.u[b] >= 0

\* 1) cover_d_i
c_cover(m, v) == \A b \in m.u : assigned_count(m, v, b[1], b[2]) + v.u[b] >= 1

\* 2) ovl_d_i
c_ovl(m, p, v) == \A b \in m.u : assigned_count(m, v, b[1], b[2]) <= p.maxovl

\* c_minH asked of some student instead of every student
c_minH_some(m, p, v) == \E s \in Range(m.stus) : total_hrs(m, v, s) >= p.minh

\* 3) minH_s
c_minH(m, p, v) == \A s \in Range(m.stus) : total_hrs(m, v, s) >= p.minh

\* 3) maxH_s
c_maxH(m, p, v) == \A s \in Range(m.stus) : total_hrs(m, v, s) <= p.maxh

\* 4) AvgLow, AvgHigh
c_avg(m, p, v) ==
  LET N == Len(m.stus)
      total_all == Total(v.x)
  IN total_all >= p.avg_low * N /\ total_all <= p.avg_high * N

\* 5) busy_s_d_i
c_busy(m, v) == \A k \in m.busy : v.x[k] = 0

\* 6) for every student and day
c_shape_all(m, v) ==
  \A sd \in m.y :
    c_shape(x_day(m, v, sd[1], sd[2]), v.y[sd],
            s2_list(m, v, sd[1], sd[2]), s3_list(m, v, sd[1], sd[2]),
            s4_list(m, v, sd[1], sd[2]))

\* v satisfies every constraint build_model added to prob
satisfies(m, p, v) ==
  /\ c_cover(m, v)
  /\ c_ovl(m, p, v)
  /\ c_minH(m, p, v)
  /\ c_maxH(m, p, v)
  /\ c_avg(m, p, v)
  /\ c_busy(m, v)
  /\ c_shape_all(m, v)

\* Objective: big penalty for uncovered blocks + small penalty for assigned
\* blocks + day_cost for each day worked
big_weight == 1000
objective(p, v) == big_weight * Total(v.u) + Total(v.x) + p.day_cost * Total(v.y)

\* ------------------------------------------------------------------ inputs
\* Largest number of blocks of the whole week in the pipeline specification
MaxWeekBlocks == 6

\* genblocks's default window start, "07:30"
DefaultStart == 450

Row(n, d, cs, ce) == [name |-> n, day |-> d, cs |-> cs, ce |-> ce]

\* Rosters of one or two students on one or two days.  A class of 18:00 to
\* 19:00 lies after every window (the student is free that day); the other
\* classes cover blocks 0 and 1, touch the start of block 0 without
\* overlapping it, lie across the boundary of blocks 0 and 1, cover block 1,
\* or cover the whole day.
Rosters ==
  { {Row("A", "Monday", 1080, 1140)},
    {Row("A", "Monday", 450, 570)},
    {Row("A", "Friday", 450, 1050)},
    {Row("A", "Monday", 1080, 1140), Row("B", "Monday", 420, 450)},
    {Row("A", "Monday", 450, 570), Row("B", "Monday", 420, 450)},
    {Row("A", "Monday", 1080, 1140), Row("B", "Monday", 500, 520)},
    {Row("A", "Friday", 450, 1050), Row("B", "Friday", 1080, 1140)},
    {Row("A", "Monday", 1080, 1140), Row("A", "Friday", 510, 570)},
    {Row("A", "Monday", 1080, 1140), Row("B", "Friday", 1080, 1140)} }

\* Operating windows of 1 .. MaxBlocks whole hours from the default start
Windows == {<<DefaultStart, DefaultStart + Hour * n>> : n \in 1..MaxBlocks}

Params(minh, maxh, avg_low, avg_high, maxovl, day_cost) ==
  [minh |-> minh, maxh |-> maxh, avg_low |-> avg_low, avg_high |-> avg_high,
   maxovl |-> maxovl, day_cost |-> day_cost]

\* main's arguments (the defaults), the scenario of short shifts with no
\* overlap, and two settings without lower bounds, one with a day cost
\* above the coverage weight
ParamSets ==
  { Params(6, 20, 8, 12, 3, 1),
    Params(2, 4, 2, 4, 1, 1),
    Params(0, 20, 0, 12, 3, 1),
    Params(0, 20, 0, 12, 3, 5000) }

\* ------------------------------------------------------------- the solver
\* Every 0/1 value map over the variables of m
value_maps(m) ==
  [x : [m.x -> {0, 1}], y : [m.y -> {0, 1}],
   start2 : [m.start2 -> {0, 1}], start3 : [m.start3 -> {0, 1}],
   start4 : [m.start4 -> {0, 1}], u : [m.u -> {0, 1}]]

\* The 0/1 maps of one student and day with n dense blocks that satisfy the
\* shift constraints 6), for n = 0 .. MaxBlocks
shape_table ==
  [n \in 0..MaxBlocks |->
     {l \in [x : [0..(n - 1) -> {0, 1}], y : {0, 1},
             start2 : [0..(n - 2) -> {0, 1}], start3 : [0..(n - 3) -> {0, 1}],
             start4 : [0..(n - 4) -> {0, 1}]] :
        c_shape(l.x, l.y, l.start2, l.start3, l.start4)}]

day_keys(keys, sd) == {k[3] : k \in {q \in keys : q[1] = sd[1] /\ q[2] = sd[2]}}

\* The maps of student and day sd that satisfy 6) and the busy constraints 5)
local_maps(m, sd) ==
  LET dx == day_keys(m.x, sd)
      n == Cardinality(dx)
      all == IF /\ n <= MaxBlocks
                /\ dx = 0..(n - 1)
                /\ day_keys(m.start2, sd) = 0..(n - 2)
                /\ day_keys(m.start3, sd) = 0..(n - 3)
                /\ day_keys(m.start4, sd) = 0..(n - 4)
             THEN shape_table[n]
             ELSE {l \in [x : [dx -> {0, 1}], y : {0, 1},
                          start2 : [day_keys(m.start2, sd) -> {0, 1}],
                          start3 : [day_keys(m.start3, sd) -> {0, 1}],
                          start4 : [day_keys(m.start4, sd) -> {0, 1}]] :
                     c_shape(l.x, l.y, l.start2, l.start3, l.start4)}
  IN {l \in all : \A i \in dx : <<sd[1], sd[2], i>> \in m.busy => l.x[i] = 0}

RECURSIVE local_choices(_, _)
\* One local map for every student and day of S
local_choices(m, S) ==
  IF S = {} THEN {<<>>}
  ELSE LET sd == CHOOSE sd \in S : TRUE
       IN {(sd :> l) @@ c : l \in local_maps(m, sd), c \in local_choices(m, S \ {sd})}

to_values(m, c, fu) ==
  [x |-> [k \in m.x |-> c[<<k[1], k[2]>>].x[k[3]]],
   y |-> [k \in m.y |-> c[k].y],
   start2 |-> [k \in m.start2 |-> c[<<k[1], k[2]>>].start2[k[3]]],
   start3 |-> [k \in m.start3 |-> c[<<k[1], k[2]>>].start3[k[3]]],
   start4 |-> [k \in m.start4 |-> c[<<k[1], k[2]>>].start4[k[3]]],
   u |-> fu]

\* The value maps that satisfy every constraint of the model: the maps that
\* satisfy 5) and 6) student and day by student and day, filtered by all
\* the constraints
feasible_set(m, p) ==
  {v \in {to_values(m, c, fu) : c \in local_choices(m, m.y), fu \in [m.u -> {0, 1}]} :
     satisfies(m, p, v)}

\* LpStatus after prob.solve
Usable == {"Optimal", "Feasible"}
Failed == {"Not Solved", "Unbounded", "Undefined"}

\* What the variables hold after a solve without a solution
leftover_values(m) ==
  {[x |-> [k \in m.x |-> b], y |-> [k \in m.y |-> b],
    start2 |-> [k \in m.start2 |-> b], start3 |-> [k \in m.start3 |-> b],
    start4 |-> [k \in m.start4 |-> b], u |-> [k \in m.u |-> b]] : b \in {0, 1}}

\* ------------------------------------------------------------------ actions
idle == /\ days = <<>> /\ blks = <<>> /\ model = None
        /\ status = "Not Solved" /\ valuesRead = FALSE
        /\ result = [kind |-> "unset"] /\ files = <<>>

week_blocks(roster, w) == Len(genblocks(sorted_days(roster), w[1], w[2]))

Init ==
  /\ pc = "start"
  /\ df \in Rosters
  /\ window \in {w \in Windows : week_blocks(df, w) <= MaxWeekBlocks}
  /\ params \in ParamSets
  /\ val = None
  /\ idle

\* main, line 266: prob, x, y, u, blks, stus = build_model(df, ...)
BuildModel ==
  /\ pc = "start"
  /\ model' = build_model(df, window)
  /\ days' = model'.ds
  /\ blks' = model'.blks
  /\ pc' = IF model'.keyerror THEN "KeyError" ELSE "built"
  /\ UNCHANGED <<window, df, params, status, val, valuesRead, result, files>>

\* The least element of a non-empty set of integers
least(S) == CHOOSE a \in S : \A b \in S : a <= b

\* The (status, value map) pairs an external solver may leave behind on a
\* model whose feasible maps are F: Optimal comes with a feasible map of
\* least objective, Feasible with any feasible map, Infeasible only when
\* there is none, and a failed run with whatever the variables were left
\* holding.
outcomes(F, m, p) ==
  LET optimal(best) == {v \in F : objective(p, v) = best}
  IN (IF F = {} THEN {<<"Infeasible", v>> : v \in leftover_values(m)}
      ELSE {<<"Optimal", v>> : v \in optimal(least({objective(p, w) : w \in F}))}
           \cup {<<"Feasible", v>> : v \in F})
     \cup (Failed \X leftover_values(m))

\* solve_and_extract, line 210: prob.solve(solver)
Solve ==
  /\ pc = "built"
  /\ pc' = "solved"
  /\ \E r \in outcomes(feasible_set(model, params), model, params) :
        /\ status' = r[1]
        /\ val' = r[2]
  /\ UNCHANGED <<days, window, df, params, blks, model, valuesRead, result, files>>

\* ------------------------------------------------------- solve_and_extract
\* daymap of the "Sort nicely" step
daymap == ("Monday" :> 1) @@ ("Tuesday" :> 2) @@ ("Wednesday" :> 3)
          @@ ("Thursday" :> 4) @@ ("Friday" :> 5)

\* Python's order on the student names
name_rank(s) == CHOOSE k \in 1..Len(AlphabeticalNames) : AlphabeticalNames[k] = s

\* for s in stus: for (d, i, st, et) in blks: the (s, block) pairs in order
cells(ss, bs) ==
  [k \in 1..(Len(ss) * Len(bs)) |->
     <<ss[((k - 1) \div Len(bs)) + 1], bs[((k - 1) % Len(bs)) + 1]>>]

\* rows: one per x[(s,d,i)].varValue == 1
assigned_rows(m, v) ==
  LET one(c) == v.x[<<c[1], c[2][1], c[2][2]>>] = 1
      sel == SelectSeq(cells(m.stus, m.blks), one)
  IN [k \in 1..Len(sel) |->
        [Student |-> sel[k][1], Day |-> sel[k][2][1], BlockIdx |-> sel[k][2][2],
         Start |-> strftime(sel[k][2][3]), End |-> strftime(sel[k][2][4])]]

\* hrs = sol_df.groupby("Student")["BlockIdx"].count(); sol_df["TotalHrs"]
with_total_hrs(rows) ==
  [k \in 1..Len(rows) |->
     [Student |-> rows[k].Student, Day |-> rows[k].Day,
      BlockIdx |-> rows[k].BlockIdx, Start |-> rows[k].Start, End |-> rows[k].End,
      TotalHrs |-> Cardinality({j \in 1..Len(rows) : rows[j].Student = rows[k].Student})]]

\* The sort key ["daynum", "BlockIdx", "Student"]
sort_key(r) == <<daymap[r.Day], r.BlockIdx, name_rank(r.Student)>>

key_less(a, b) ==
  \/ a[1] < b[1]
  \/ a[1] = b[1] /\ a[2] < b[2]
  \/ a[1] = b[1] /\ a[2] = b[2] /\ a[3] < b[3]

RECURSIVE insert_row(_, _)
insert_row(r, sorted) ==
  IF sorted = <<>> THEN <<r>>
  ELSE IF key_less(sort_key(r), sort_key(Head(sorted)))
       THEN <<r>> \o sorted
       ELSE <<Head(sorted)>> \o insert_row(r, Tail(sorted))

RECURSIVE sort_values(_)
\* sol_df.sort_values(["daynum", "BlockIdx", "Student"])
sort_values(rows) ==
  IF rows = <<>> THEN <<>>
  ELSE insert_row(Head(rows), sort_values(Tail(rows)))

\* uncovered_rows: one per u[(d,i)].varValue == 1
uncovered_rows(m, v) ==
  LET one(b) == v.u[<<b[1], b[2]>>] = 1
      sel == SelectSeq(m.blks, one)
  IN [k \in 1..Len(sel) |->
        [Day |-> sel[k][1], BlockIdx |-> sel[k][2],
         Start |-> strftime(sel[k][3]), End |-> strftime(sel[k][4]),
         Status |-> "Uncovered"]]

\* extract that gives up on Infeasible only
extract_unless_infeasible(m, st, v) ==
  IF st = "Infeasible" THEN [kind |-> "None"]
  ELSE LET rows == assigned_rows(m, v)
       IN IF rows = <<>> THEN [kind |-> "KeyError"]
          ELSE [kind |-> "tables",
                sol_df |-> sort_values(with_total_hrs(rows)),
                uncovered_df |-> uncovered_rows(m, v)]

\* solve_and_extract after prob.solve: None on a status that is not usable;
\* otherwise the values are read and the two tables returned.  An empty
\* sol_df has no "Day" column, and sol_df["Day"] raises KeyError.
extract(m, st, v) ==
  IF st \notin Usable THEN [kind |-> "None"]
  ELSE LET rows == assigned_rows(m, v)
       IN IF rows = <<>> THEN [kind |-> "KeyError"]
          ELSE [kind |-> "tables",
                sol_df |-> sort_values(with_total_hrs(rows)),
                uncovered_df |-> uncovered_rows(m, v)]

Extract ==
  /\ pc = "solved"
  /\ result' = extract(model, status, val)
  /\ valuesRead' = (result'.kind # "None")
  /\ pc' = IF result'.kind = "KeyError" THEN "raised" ELSE "returned"
  /\ UNCHANGED <<days, window, df, params, blks, model, status, val, files>>

\* main after solve_and_extract: nothing is written for None; otherwise
\* solution_assigned.xlsx, and solution_uncovered.xlsx when not empty
Main ==
  /\ pc = "returned"
  /\ pc' = "done"
  /\ files' = IF result.kind = "None" THEN files
              ELSE IF result.uncovered_df # <<>>
                   THEN ("solution_assigned.xlsx" :> result.sol_df)
                        @@ ("solution_uncovered.xlsx" :> result.uncovered_df)
                   ELSE ("solution_assigned.xlsx" :> result.sol_df)
  /\ UNCHANGED <<days, window, df, params, blks, model, status, val, valuesRead, result>>

Next == BuildModel \/ Solve \/ Extract \/ Main

Spec == Init /\ [][Next]_vars

\* ----------------------------------------------- block generation alone
GenDays == {<<>>, <<"Monday">>, <<"Friday", "Monday">>,
            <<"Monday", "Tuesday", "Wednesday">>}
GenTimes == {0, 60, 450, 480, 510, 600, 720, 1050, 1320, 1380, 1410, 1425, 1439}

InitGen ==
  /\ pc = "start"
  /\ days \in GenDays
  /\ window \in GenTimes \X GenTimes
  /\ df = {}
  /\ params = None
  /\ val = None
  /\ blks = <<>> /\ model = None
  /\ status = "Not Solved" /\ valuesRead = FALSE
  /\ result = [kind |-> "unset"] /\ files = <<>>

\* blks = genblocks(days, start, end)
GenBlocks ==
  /\ pc = "start"
  /\ blks' = genblocks(days, window[1], window[2])
  /\ pc' = "generated"
  /\ UNCHANGED <<days, window, df, params, model, status, val, valuesRead, result, files>>

SpecGen == InitGen /\ [][GenBlocks]_vars

\* ------------------------------------- the model under every 0/1 value map
\* One student, free on one day
ModelRosters == {{Row("A", "Monday", 1080, 1140)}}
ModelParams == {Params(0, 20, 0, 12, 3, 1)}

InitModel ==
  /\ pc = "start"
  /\ df \in ModelRosters
  /\ window \in Windows
  /\ params \in ModelParams
  /\ val = None
  /\ idle

\* prob.solve by a solver that tries one value map, any 0/1 map over the
\* variables: Feasible when the map satisfies every constraint, and
\* otherwise Not Solved with the map left in the variables
SolveAny ==
  /\ pc = "built"
  /\ pc' = "solved"
  /\ \E v \in value_maps(model) :
        /\ val' = v
        /\ status' = IF satisfies(model, params, v) THEN "Feasible" ELSE "Not Solved"
  /\ UNCHANGED <<days, window, df, params, blks, model, valuesRead, result, files>>

NextModel == BuildModel \/ SolveAny

SpecModel == InitModel /\ [][NextModel]_vars

\* ============================================================= properties
solved == pc \in {"solved", "returned", "raised", "done"}
usable == solved /\ status \in Usable

\* The block indices student and day sd holds in the value map v
worked(v, sd) == {k[3] : k \in {q \in DOMAIN v.x : q[1] = sd[1] /\ q[2] = sd[2] /\ v.x[q] = 1}}

\* S is one run of consecutive integers of length 2, 3 or 4
one_run(S) == \E a \in S : \E len \in {2, 3, 4} : S = a..(a + len - 1)

C9_DayWorked ==
  (pc = "solved" /\ status = "Feasible") =>
     \A sd \in model.y :
        LET starts(sk) == SumOver(sk, {q \in DOMAIN sk : q[1] = sd[1] /\ q[2] = sd[2]})
            n2 == starts(val.start2)
            n3 == starts(val.start3)
            n4 == starts(val.start4)
        IN /\ (val.y[sd] = 1) <=> (worked(val, sd) # {})
           /\ n2 + n3 + n4 = val.y[sd]
           /\ n2 + n3 + n4 \in {0, 1}
           /\ Cardinality(worked(val, sd)) = 2 * n2 + 3 * n3 + 4 * n4

\* A satisfying map with a day worked through a shift of three blocks
C9_Witness ==
  /\ pc = "solved" /\ status = "Feasible"
  /\ \E sd \in model.y : val.y[sd] = 1 /\ Cardinality(worked(val, sd)) = 3

\* Number of students holding block b = (d, i) in the value map v
holders(v, b) ==
  Cardinality({k \in DOMAIN v.x : k[2] = b[1] /\ k[3] = b[2] /\ v.x[k] = 1})

\* C2 as stated (coverage or flag, exactly one): after a solve with status
\* Optimal or Feasible, every block has at least one student or has u = 1,
\* never both.
C2_ExactlyOne ==
  usable =>
     \A b \in model.u :
        /\ holders(val, b) + val.u[b] >= 1
        /\ (holders(val, b) >= 1) # (val.u[b] = 1)

\* C2 as amended: after a solve with status Optimal or Feasible every block
\* has at least one student or has u = 1; with status Optimal never both.
C2_CoverageOrFlag ==
  usable =>
     \A b \in model.u :
        /\ holders(val, b) + val.u[b] >= 1
        /\ status = "Optimal" => (holders(val, b) >= 1) # (val.u[b] = 1)

\* An optimal solution with a staffed block and a flagged block
C2_Witness ==
  /\ usable /\ status = "Optimal"
  /\ \E b \in model.u : holders(val, b) >= 1 /\ val.u[b] = 0
  /\ \E b \in model.u : holders(val, b) = 0 /\ val.u[b] = 1

\* Row r is a class of student s that overlaps block b, half-open
overlaps(r, s, b) == r.name = s /\ r.day = b[1] /\ r.cs < b[4] /\ r.ce > b[3]

\* C3 (availability): build_model adds x[s,d,i] == 0 exactly for the blocks
\* [bs, be) that some class (d, cs, ce) of s meets with cs < be and ce > bs,
\* and no usable solution gives a student such a block.
C3_Availability ==
  pc # "start" =>
     \A s \in Range(model.stus) : \A b \in Range(blks) :
        LET key == <<s, b[1], b[2]>>
            busy == \E r \in df : overlaps(r, s, b)
        IN /\ (key \in model.busy) <=> busy
           /\ (usable /\ busy) => val.x[key] = 0

\* A usable solution of a roster with busy blocks in which a student holds
\* a block that starts when one of their classes ends
C3_Witness ==
  /\ usable
  /\ model.busy # {}
  /\ \E r \in df : \E b \in Range(blks) :
        r.day = b[1] /\ r.ce = b[3] /\ val.x[<<r.name, b[1], b[2]>>] = 1

\* The feasible map v has the fewest uncovered blocks among F
fewest_uncovered(F, v) == \A w \in F : Total(v.u) <= Total(w.u)

\* C4 (coverage priority): every feasible map of least objective also has
\* the smallest number of uncovered blocks among the feasible maps.
C4_CoveragePriority ==
  (pc = "solved" /\ status = "Optimal") =>
     fewest_uncovered(feasible_set(model, params), val)

\* C5 (bad status): on a status other than Optimal or Feasible
\* solve_and_extract returns None without reading a value and main writes
\* no table; values are read and tables returned only on Optimal or Feasible.
C5_NoSolutionOnBadStatus ==
  /\ (pc \in {"returned", "done"} /\ status \notin Usable) =>
        result.kind = "None" /\ ~valuesRead /\ files = <<>>
  /\ (valuesRead \/ result.kind = "tables" \/ files # <<>>) => status \in Usable

\* A run that ended on Infeasible with ones left in the x variables and
\* nothing written
C5_Witness ==
  /\ pc = "done" /\ status = "Infeasible"
  /\ \E k \in model.x : val.x[k] = 1
  /\ result.kind = "None" /\ files = <<>>

\* The blocks of the week that overlap no class of student s
free_blocks(s) == {b \in Range(blks) : \A r \in df : ~overlaps(r, s, b)}

short_of_blocks ==
  \E s \in Range(model.stus) : Cardinality(free_blocks(s)) < params.minh

\* C7 (infeasible scenario): when some student has fewer free blocks than
\* minh, no value map satisfies the constraints, the solve is not usable,
\* solve_and_extract returns None and nothing is written.
C7_Infeasible ==
  (pc # "start" /\ short_of_blocks) =>
     /\ pc = "built" => feasible_set(model, params) = {}
     /\ solved => status \notin Usable
     /\ pc \in {"returned", "done"} => result.kind = "None"
     /\ pc # "raised"
     /\ files = <<>>

\* A finished run in which a student with free blocks, but fewer than minh,
\* made the model infeasible
C7_Witness ==
  /\ pc = "done" /\ short_of_blocks
  /\ \E s \in Range(model.stus) :
        /\ Cardinality(free_blocks(s)) < params.minh
        /\ Cardinality(free_blocks(s)) >= 1
  /\ result.kind = "None"

\* Monday < Tuesday < Wednesday < Thursday < Friday
CanonicalDays == <<"Monday", "Tuesday", "Wednesday", "Thursday", "Friday">>
day_number(d) == CHOOSE k \in 1..Len(CanonicalDays) : CanonicalDays[k] = d

\* Row a comes before row b: by day, then block index, then student name
row_before(a, b) ==
  \/ day_number(a.Day) < day_number(b.Day)
  \/ /\ a.Day = b.Day
     /\ \/ a.BlockIdx < b.BlockIdx
        \/ a.BlockIdx = b.BlockIdx /\ name_rank(a.Student) < name_rank(b.Student)

\* The returned tables are the decode of the value map v
reference_decode(m, v, r) ==
  LET ones == {k \in m.x : v.x[k] = 1}
      flagged == {b \in m.u : v.u[b] = 1}
  IN /\ Len(r.sol_df) = Cardinality(ones)
     /\ \A k \in ones : \E n \in 1..Len(r.sol_df) :
           /\ r.sol_df[n].Student = k[1]
           /\ r.sol_df[n].Day = k[2]
           /\ r.sol_df[n].BlockIdx = k[3]
     /\ \A n \in 1..Len(r.sol_df) :
           r.sol_df[n].TotalHrs =
              Cardinality({k \in ones : k[1] = r.sol_df[n].Student})
     /\ \A n1, n2 \in 1..Len(r.sol_df) :
           n1 < n2 => row_before(r.sol_df[n1], r.sol_df[n2])
     /\ Len(r.uncovered_df) = Cardinality(flagged)
     /\ \A b \in flagged : \E n \in 1..Len(r.uncovered_df) :
           r.uncovered_df[n].Day = b[1] /\ r.uncovered_df[n].BlockIdx = b[2]
     /\ \A n \in 1..Len(r.uncovered_df) : r.uncovered_df[n].Status = "Uncovered"

\* C8 (decoding): for every value map that comes with status Optimal or
\* Feasible, the map without any x = 1 included, solve_and_extract returns
\* the two tables: one row per x = 1 with the student's total, ordered by
\* day, block index and name, and one "Uncovered" row per u = 1.
C8_Decode ==
  (pc \in {"returned", "raised", "done"} /\ status \in Usable) =>
     result.kind = "tables" /\ reference_decode(model, val, result)

\* C10 (index bookkeeping): start_k[s,d,i] exists exactly when i, ..., i+k-1
\* are all block indices of day d, x exists for every student and block,
\* every linking constraint looks up an x that exists, and build_model does
\* not fail.
C10_StartIndex ==
  /\ pc # "start" => ~model.keyerror
  /\ pc = "built" =>
       LET idx(d) == {b[2] : b \in {c \in Range(blks) : c[1] = d}}
           sk(k) == IF k = 2 THEN model.start2
                    ELSE IF k = 3 THEN model.start3 ELSE model.start4
       IN /\ \A s \in Range(model.stus) : \A b \in Range(blks) :
                <<s, b[1], b[2]>> \in model.x
          /\ \A k \in {2, 3, 4} :
                /\ \A s \in Range(model.stus) : \A d \in Range(days) :
                      \A i \in idx(d) :
                         (<<s, d, i>> \in sk(k)) <=> \A j \in 0..(k - 1) : i + j \in idx(d)
                /\ \A key \in sk(k) :
                      /\ key[1] \in Range(model.stus)
                      /\ key[3] \in idx(key[2])
                      /\ \A j \in 0..(k - 1) : <<key[1], key[2], key[3] + j>> \in model.x

\* A model built for days of three blocks: shifts of two and three blocks
\* can start, none of four
C10_Witness ==
  /\ pc = "built"
  /\ model.start2 # {} /\ model.start3 # {} /\ model.start4 = {}

\* C6 (block generation): for a window start < end, every day gets the
\* blocks 0, 1, 2, ... without gaps, block i being [start + i hours,
\* start + (i+1) hours), one hour long and ending at or before the window
\* end, and as many blocks as whole hours fit into the window.
C6_BlocksInWindow ==
  (pc = "generated" /\ window[1] < window[2]) =>
     \A d \in Range(days) :
        LET db == day_blocks(blks, d)
        IN /\ Len(db) = (window[2] - window[1]) \div 60
           /\ \A k \in 1..Len(db) :
                 /\ db[k][1] = k - 1
                 /\ db[k][2] = window[1] + 60 * (k - 1)
                 /\ db[k][3] = window[1] + 60 * k
                 /\ db[k][3] - db[k][2] = 60
                 /\ db[k][3] <= window[2]

====
